---- MODULE Spec2Model ----
(***************************************************************************)
(* Model of server.py (pokerweb): the PokerGame table, its action lock,    *)
(* the turn loop, the human/CPU/Gemini decision steps and the two Flask    *)
(* routes that mutate the table.                                           *)
(*                                                                         *)
(* Seats are 0-based as in the source; players is a TLA+ sequence, so      *)
(* seat i is players[i + 1].  Cards are modelled by their number only      *)
(* (deck, community_cards and hand are lengths): no code path before the   *)
(* showdown looks at a card.  The log is not modelled.                     *)
(*                                                                         *)
(* A block executed under "with self.action_lock" is one atomic step that  *)
(* needs the lock free and leaves it free, except where the block itself   *)
(* tries to take the lock again.  Every read made outside the lock is a    *)
(* step of its own.                                                        *)
(***************************************************************************)
EXTENDS Integers, Sequences, FiniteSets, TLC

\* ---- program constants -------------------------------------------------
StartChips == 1000
small_blind_amount == 10
big_blind_amount == 20
DeckSize == 52

\* ---- bounds ------------------------------------------------------------
NThreads == 2
MaxHands == 2

Threads == 1..NThreads

\* (cpu_players, gemini_players) given to the constructor
SeatConfigs == { <<0, 0>>, <<1, 0>>, <<0, 1>> }

\* the same for the study of one hand
HandSeatConfigs == { <<1, 0>>, <<0, 1>>, <<2, 0>>, <<1, 1>> }

\* raise amounts a human or Gemini reply may carry
Amounts == { 5000 }

ActionNames == { "fold", "check", "call", "raise", "all-in", "bogus" }

VARIABLES
    players,               \* self.players
    deck,                  \* len(self.deck.cards)
    community_cards,       \* len(self.community_cards)
    pot,
    current_bet,
    current_player_index,
    game_stage,
    game_in_progress,
    small_blind_index,
    big_blind_index,
    action_lock,           \* 0 = free, otherwise the thread holding it
    human_action_needed,
    pc,                    \* position of each thread
    loc,                   \* locals of each thread: action, amount, player
    hands,                 \* number of hands started (bounds the model)
    turn                   \* history of the human turn awaited last: the
                           \* submissions applied (each starts one turn loop)
                           \* and whether one was refused in the locked block

table == << players, deck, community_cards, pot, current_bet,
            current_player_index, game_stage, game_in_progress,
            small_blind_index, big_blind_index, human_action_needed >>

vars == << players, deck, community_cards, pot, current_bet,
           current_player_index, game_stage, game_in_progress,
           small_blind_index, big_blind_index, action_lock,
           human_action_needed, pc, loc, hands, turn >>

\* ---- helpers -----------------------------------------------------------
Min(a, b) == IF a < b THEN a ELSE b
Max(a, b) == IF a > b THEN a ELSE b

Seats(ps) == 0..(Len(ps) - 1)

RECURSIVE SumSeq(_, _)
SumSeq(ps, f) == IF ps = << >> THEN 0
                 ELSE (IF f = "chips" THEN Head(ps).chips ELSE Head(ps).bet)
                      + SumSeq(Tail(ps), f)

SumChips(ps) == SumSeq(ps, "chips")
SumBets(ps) == SumSeq(ps, "bet")

NoLocals == [action |-> "none", amount |-> 0, player |-> "none"]

\* the elements of a finite set of numbers, in some order
RECURSIVE SetToSeqOf(_)
SetToSeqOf(S) == IF S = {} THEN << >>
                 ELSE LET x == CHOOSE y \in S : TRUE
                      IN << x >> \o SetToSeqOf(S \ { x })

\* the elements of s at the positions idx, in their order
RECURSIVE SelectSeqIdx(_, _)
SelectSeqIdx(s, idx) ==
    IF idx = {} THEN << >>
    ELSE LET i == CHOOSE k \in idx : \A m \in idx : k <= m
         IN << s[i] >> \o SelectSeqIdx(s, idx \ { i })

\* ---- Player ------------------------------------------------------------
Player(name, is_cpu, is_gemini) ==
    [ name |-> name, hand |-> 0, chips |-> StartChips, bet |-> 0,
      has_acted |-> FALSE, is_folded |-> FALSE, is_all_in |-> FALSE,
      is_cpu |-> is_cpu, is_gemini |-> is_gemini,
      show_hand |-> (~is_cpu /\ ~is_gemini) ]

CpuName(i) == IF i = 1 THEN "CPU 1" ELSE IF i = 2 THEN "CPU 2" ELSE "CPU 3"
GeminiName(i) == IF i = 1 THEN "Gemini 1" ELSE IF i = 2 THEN "Gemini 2" ELSE "Gemini 3"

\* PokerGame.__init__: the human seat, then the CPU seats, then the Gemini seats
NewPlayers(cpu_players, gemini_players) ==
    << Player("Human", FALSE, FALSE) >>
    \o [ i \in 1..cpu_players |-> Player(CpuName(i), TRUE, FALSE) ]
    \o [ i \in 1..gemini_players |-> Player(GeminiName(i), FALSE, TRUE) ]

NewTurn == [ answered |-> 0, refused |-> FALSE ]

\* the table PokerGame(...) builds and the thread start_game_thread() starts
NewGame(configs) ==
    /\ \E c \in configs : players = NewPlayers(c[1], c[2])
    /\ deck = DeckSize
    /\ community_cards = 0
    /\ pot = 0
    /\ current_bet = 0
    /\ current_player_index = 0
    /\ game_stage = "pre-flop"
    /\ game_in_progress = FALSE
    /\ small_blind_index = -1
    /\ big_blind_index = -1
    /\ action_lock = 0
    /\ human_action_needed = FALSE
    /\ pc = [ t \in Threads |-> IF t = 1 THEN "start_game" ELSE "idle" ]
    /\ loc = [ t \in Threads |-> NoLocals ]
    /\ hands = 0
    /\ turn = NewTurn

Init == NewGame(SeatConfigs)

\* ---- handle_action -----------------------------------------------------
MinRaise(cb) == IF cb > 0 THEN cb * 2 ELSE big_blind_amount

\* faulty variant: a raise that is not capped by the stack
RaiseAmount_NoCap(p, cb, amount) == Max(MinRaise(cb), amount)

\* the amount a raise is applied with
RaiseAmount(p, cb, amount) == Min(Max(MinRaise(cb), amount), p.chips + p.bet)

\* one seat after 'call'
CallSeat(p, cb) ==
    LET amount_to_call == cb - p.bet IN
    IF amount_to_call >= p.chips
    THEN [ p EXCEPT !.bet = p.bet + p.chips, !.chips = 0, !.is_all_in = TRUE ]
    ELSE [ p EXCEPT !.chips = p.chips - amount_to_call,
                    !.bet = p.bet + amount_to_call ]

\* the acting seat after 'raise'
RaiseSeat(p, cb, amount) ==
    LET a == RaiseAmount(p, cb, amount) IN
    [ p EXCEPT !.is_all_in = IF a >= p.chips + p.bet THEN TRUE ELSE p.is_all_in,
               !.chips = p.chips - (a - p.bet),
               !.bet = a ]

\* faulty variant: a raise that leaves has_acted of the other seats alone
RaiseReset_Kept(ps, i, q) == [ ps EXCEPT ![i + 1] = q ]

\* the seats after a raise by seat i: has_acted is reset for the others
RaiseReset(ps, i, q) ==
    [ k \in 1..Len(ps) |->
        IF k = i + 1 THEN q
        ELSE IF ~ps[k].is_folded /\ ~ps[k].is_all_in
             THEN [ ps[k] EXCEPT !.has_acted = FALSE ]
             ELSE ps[k] ]

\* max(min_raise, amount) raises TypeError for an amount that is no number
ActionRaises(action, numeric) == action = "raise" /\ ~numeric

\* handle_action(action, amount) on a table (ps, cpi, cb): the new players,
\* current_bet and current_player_index
HandleAction(ps, cpi, cb, action, amount) ==
    LET p == ps[cpi + 1]
        q == CASE action = "fold" -> [ p EXCEPT !.is_folded = TRUE ]
               [] action = "call" -> CallSeat(p, cb)
               [] action = "raise" -> RaiseSeat(p, cb, amount)
               [] OTHER -> p
        ps1 == IF action = "raise" THEN RaiseReset(ps, cpi, q)
               ELSE [ ps EXCEPT ![cpi + 1] = q ]
    IN [ players |-> [ ps1 EXCEPT ![cpi + 1].has_acted = TRUE ],
         current_bet |-> IF action = "raise" THEN q.bet ELSE cb,
         current_player_index |-> (cpi + 1) % Len(ps) ]


\* ---- end_round ---------------------------------------------------------
ActiveSeats(ps) == { i \in Seats(ps) : ~ps[i + 1].is_folded }

\* faulty variant: end_round() paying the pot without the outstanding bets
EndRound_NoSweep(ps, pt, winners) ==
    LET active == ActiveSeats(ps)
        pay(i) == IF i \in active THEN pt ELSE 0
    IN [ players |-> [ k \in 1..Len(ps) |->
                         [ ps[k] EXCEPT !.bet = 0, !.show_hand = TRUE,
                                        !.chips = ps[k].chips + pay(k - 1) ] ],
         pot |-> pt,
         raised |-> (active = {}) ]

\* faulty variant: end_round() giving every winner the whole pot
EndRound_NoSplit(ps, pt, winners) ==
    LET pot1 == pt + SumBets(ps)
        active == ActiveSeats(ps)
        pay(i) == IF Cardinality(active) = 1
                  THEN (IF i \in active THEN pot1 ELSE 0)
                  ELSE (IF i \in winners THEN pot1 ELSE 0)
    IN [ players |-> [ k \in 1..Len(ps) |->
                         [ ps[k] EXCEPT !.bet = 0, !.show_hand = TRUE,
                                        !.chips = ps[k].chips + pay(k - 1) ] ],
         pot |-> pot1,
         raised |-> (active = {}) ]

\* end_round(): winners is the set of seats the showdown ranks best (used
\* only when two or more seats are left).  With no seat left winner_data[0]
\* raises IndexError after the bets are swept and the hands shown.
EndRound(ps, pt, winners) ==
    LET pot1 == pt + SumBets(ps)
        active == ActiveSeats(ps)
        winnings == IF winners = {} THEN 0 ELSE pot1 \div Cardinality(winners)
        pay(i) == IF Cardinality(active) = 1
                  THEN (IF i \in active THEN pot1 ELSE 0)
                  ELSE (IF i \in winners THEN winnings ELSE 0)
    IN [ players |-> [ k \in 1..Len(ps) |->
                         [ ps[k] EXCEPT !.bet = 0, !.show_hand = TRUE,
                                        !.chips = ps[k].chips + pay(k - 1) ] ],
         pot |-> pot1,
         raised |-> (active = {}) ]

\* ---- threads -----------------------------------------------------------
Finish(t) == /\ pc' = [ pc EXCEPT ![t] = "idle" ]
             /\ loc' = [ loc EXCEPT ![t] = NoLocals ]

Goto(t, l) == pc' = [ pc EXCEPT ![t] = l ]

\* threads are interchangeable: a new request or thread takes the first free one
FirstIdle(t) == /\ pc[t] = "idle"
                /\ \A u \in Threads : u < t => pc[u] # "idle"

\* start_game(), run by the thread start_game_thread() starts
StartGame(t) ==
    /\ pc[t] = "start_game"
    /\ IF Len(players) < 2
       THEN /\ Finish(t)
            /\ UNCHANGED << game_in_progress, small_blind_index >>
       ELSE /\ game_in_progress' = TRUE
            /\ small_blind_index' = (small_blind_index + 1) % Len(players)
            /\ Goto(t, "start_round")
            /\ UNCHANGED loc
    /\ UNCHANGED << players, deck, community_cards, pot, current_bet,
                    current_player_index, game_stage, big_blind_index,
                    action_lock, human_action_needed, hands, turn >>

\* a seat posting a blind of b
PostBlind(p, b) ==
    LET paid == Min(b, p.chips) IN
    [ p EXCEPT !.bet = paid, !.chips = p.chips - paid,
               !.is_all_in = IF p.chips - paid = 0 THEN TRUE ELSE p.is_all_in ]

\* a seat dealt into a new hand
DealSeat(p) ==
    [ p EXCEPT !.hand = 2, !.bet = 0, !.has_acted = FALSE, !.is_folded = FALSE,
               !.is_all_in = FALSE, !.show_hand = (~p.is_cpu /\ ~p.is_gemini) ]

\* the locked block of start_round(); with fewer than two funded seats it
\* returns without opening the betting
StartRound(t) ==
    /\ pc[t] = "start_round"
    /\ action_lock = 0
    /\ LET funded == SelectSeq(players, LAMBDA p : p.chips > 0)
           n == Len(funded)
           sbi == (small_blind_index + 1) % n
           bbi == (sbi + 1) % n
           dealt == [ k \in 1..n |-> DealSeat(funded[k]) ]
           withSb == [ dealt EXCEPT ![sbi + 1] = PostBlind(dealt[sbi + 1], small_blind_amount) ]
           withBb == [ withSb EXCEPT ![bbi + 1] = PostBlind(withSb[bbi + 1], big_blind_amount) ]
       IN IF n < 2
          THEN /\ players' = funded
               /\ game_in_progress' = FALSE
               /\ deck' = DeckSize
               /\ pot' = 0
               /\ current_bet' = 0
               /\ UNCHANGED << small_blind_index, big_blind_index,
                               current_player_index >>
               /\ Finish(t)
          ELSE /\ players' = withBb
               /\ game_in_progress' = TRUE
               /\ deck' = DeckSize - 2 * n
               /\ small_blind_index' = sbi
               /\ big_blind_index' = bbi
               /\ pot' = withBb[sbi + 1].bet + withBb[bbi + 1].bet
               /\ current_bet' = big_blind_amount
               /\ current_player_index' = (bbi + 1) % n
               /\ Goto(t, "process_betting_round")
               /\ UNCHANGED loc
    /\ community_cards' = 0
    /\ game_stage' = "pre-flop"
    /\ hands' = hands + 1
    /\ UNCHANGED << action_lock, human_action_needed, turn >>

\* the first seat from i on that is neither folded nor all-in (the while
\* loop of process_betting_round; it never ends when there is none)
RECURSIVE FirstLive(_, _, _)
FirstLive(ps, i, n) ==
    IF n = 0 THEN -1
    ELSE IF ~ps[i + 1].is_folded /\ ~ps[i + 1].is_all_in THEN i
    ELSE FirstLive(ps, (i + 1) % Len(ps), n - 1)

AllStuck(ps) == \A k \in 1..Len(ps) : ps[k].is_folded \/ ps[k].is_all_in

\* process_betting_round(): before the flop it goes straight to the turn loop;
\* later it takes the lock to re-open the betting
ProcessBettingRound(t) ==
    /\ pc[t] = "process_betting_round"
    /\ IF game_stage = "pre-flop"
       THEN /\ Goto(t, "process_turn")
            /\ UNCHANGED << players, current_bet, current_player_index, action_lock >>
       ELSE /\ action_lock = 0
            /\ IF AllStuck(players)
               THEN /\ action_lock' = t
                    /\ UNCHANGED << players, current_bet, current_player_index, pc >>
               ELSE /\ current_player_index' =
                          FirstLive(players, small_blind_index % Len(players), Len(players))
                    /\ current_bet' = 0
                    /\ players' = [ k \in 1..Len(players) |->
                         [ players[k] EXCEPT !.bet = 0,
                            !.has_acted = IF ~players[k].is_folded /\ ~players[k].is_all_in
                                          THEN FALSE ELSE players[k].has_acted ] ]
                    /\ Goto(t, "process_turn")
                    /\ UNCHANGED action_lock
    /\ UNCHANGED << deck, community_cards, pot, game_stage, game_in_progress,
                    small_blind_index, big_blind_index,
                    human_action_needed, loc, hands, turn >>

\* self.players[self.current_player_index] raises IndexError
NoSuchSeat == current_player_index >= Len(players)

\* ---- process_turn ------------------------------------------------------
\* the test of the while loop, read without the lock
ProcessTurn(t) ==
    /\ pc[t] = "process_turn"
    /\ IF game_in_progress
       THEN Goto(t, "process_turn_locked") /\ UNCHANGED loc
       ELSE Finish(t)
    /\ UNCHANGED << table, action_lock, hands, turn >>

LiveSeats(ps) == { i \in ActiveSeats(ps) : ~ps[i + 1].is_all_in }

\* the round-close test of process_turn
RoundClosed(ps) ==
    /\ \A i \in LiveSeats(ps) : ps[i + 1].has_acted
    /\ Cardinality({ ps[i + 1].bet : i \in LiveSeats(ps) }) <= 1

NextStage(s) == CASE s = "pre-flop" -> "flop"
                  [] s = "flop" -> "turn"
                  [] s = "turn" -> "river"
                  [] OTHER -> "showdown"

CardsDealt(s) == CASE s = "flop" -> 3
                   [] s = "turn" -> 1
                   [] s = "river" -> 1
                   [] OTHER -> 0

\* end_round() called from the locked block of process_turn or from
\* end_betting_round: the thread returns, or dies on the IndexError
EndRoundStep(t, ps, pt, winners) ==
    LET r == EndRound(ps, pt, winners) IN
    /\ players' = r.players
    /\ pot' = r.pot
    /\ game_in_progress' = IF r.raised THEN game_in_progress ELSE FALSE
    /\ Finish(t)

\* end_betting_round(), called with the lock held
EndBettingRound(t) ==
    LET swept == [ k \in 1..Len(players) |-> [ players[k] EXCEPT !.bet = 0 ] ]
        pot1 == pot + SumBets(players)
        stage == NextStage(game_stage)
    IN /\ game_stage' = stage
       /\ deck' = deck - CardsDealt(stage)
       /\ community_cards' = community_cards + CardsDealt(stage)
       /\ IF stage = "showdown"
          THEN /\ \E winners \in (SUBSET ActiveSeats(players)) \ {{}} :
                     EndRoundStep(t, swept, pot1, winners)
               /\ UNCHANGED action_lock
          ELSE \* process_betting_round() asks for the lock this thread holds
               /\ players' = swept
               /\ pot' = pot1
               /\ action_lock' = t
               /\ Goto(t, "process_betting_round")
               /\ UNCHANGED << game_in_progress, loc >>
       /\ UNCHANGED << current_player_index, human_action_needed >>

\* faulty variant: the turn loop calling the provider inside its locked block
LockAtProvider_Held(t) == t

\* the lock when the turn loop calls get_cpu_action or
\* get_gemini_poker_action: the with block has been left, the lock is free
LockAtProvider(t) == 0

\* one pass of the locked block of process_turn
ProcessTurnLocked(t) ==
    /\ pc[t] = "process_turn_locked"
    /\ action_lock = 0
    /\ IF Cardinality(ActiveSeats(players)) <= 1
       THEN /\ EndRoundStep(t, players, pot, {})
            /\ UNCHANGED << deck, community_cards, game_stage, turn,
                            current_player_index, action_lock, human_action_needed >>
       ELSE IF RoundClosed(players)
       THEN EndBettingRound(t) /\ UNCHANGED turn
       ELSE LET current_player == players[current_player_index + 1] IN
            /\ UNCHANGED << players, pot, deck, community_cards, game_stage,
                            game_in_progress >>
            /\ IF NoSuchSeat
               THEN /\ Finish(t)
                    /\ UNCHANGED << current_player_index, human_action_needed, turn,
                                    action_lock >>
               ELSE IF current_player.is_folded \/ current_player.is_all_in
               THEN /\ current_player_index' = (current_player_index + 1) % Len(players)
                    /\ Goto(t, "process_turn")
                    /\ UNCHANGED << human_action_needed, loc, turn, action_lock >>
               ELSE IF ~current_player.is_cpu /\ ~current_player.is_gemini
               THEN /\ human_action_needed' = TRUE
                    /\ turn' = NewTurn
                    /\ Finish(t)
                    /\ UNCHANGED << current_player_index, action_lock >>
               ELSE /\ Goto(t, IF current_player.is_cpu THEN "get_cpu_action"
                                                        ELSE "get_gemini_poker_action")
                    /\ loc' = [ loc EXCEPT ![t].player = current_player.name ]
                    /\ action_lock' = LockAtProvider(t)
                    /\ UNCHANGED << current_player_index, human_action_needed, turn >>
    /\ UNCHANGED << current_bet, small_blind_index, big_blind_index, hands >>

\* ---- decisions ---------------------------------------------------------
\* apply handle_action to the table
Apply(action, amount) ==
    LET r == HandleAction(players, current_player_index, current_bet, action, amount) IN
    /\ players' = r.players
    /\ current_bet' = r.current_bet
    /\ current_player_index' = r.current_player_index

Seated(ps, name) == \E k \in 1..Len(ps) : ps[k].name = name
PlayerNamed(ps, name) == ps[CHOOSE k \in 1..Len(ps) : ps[k].name = name]

\* the actions get_cpu_action may pick for a seat, from the values it reads
\* without the lock (random.random() < 0.7 is either way)
CpuChoices(p, cb) ==
    LET amount_to_call == cb - p.bet IN
    IF amount_to_call > 0
    THEN (IF amount_to_call >= p.chips THEN { "call" } ELSE { "call", "fold" })
    ELSE { "check" }

\* the same for the Player object named name.  An object start_round has
\* dropped from self.players keeps chips = 0 and the bet it had: it calls
\* or checks.
CpuChoicesOf(ps, name, cb) ==
    IF Seated(ps, name) THEN CpuChoices(PlayerNamed(ps, name), cb)
    ELSE { "call", "check" }

\* get_cpu_action up to the lock
GetCpuAction(t) ==
    /\ pc[t] = "get_cpu_action"
    /\ \E a \in CpuChoicesOf(players, loc[t].player, current_bet) :
           loc' = [ loc EXCEPT ![t].action = a ]
    /\ Goto(t, "cpu_commit")
    /\ UNCHANGED << table, action_lock, hands, turn >>

\* the locked block of get_cpu_action; the turn loop goes on
CpuCommit(t) ==
    /\ pc[t] = "cpu_commit"
    /\ action_lock = 0
    /\ IF NoSuchSeat
       THEN /\ Finish(t)
            /\ UNCHANGED << players, current_bet, current_player_index >>
       ELSE /\ Apply(loc[t].action, 0)
            /\ Goto(t, "process_turn")
            /\ loc' = [ loc EXCEPT ![t] = NoLocals ]
    /\ UNCHANGED << deck, community_cards, pot, game_stage, game_in_progress,
                    small_blind_index, big_blind_index, action_lock,
                    human_action_needed, hands, turn >>

\* what a human request or a parsed Gemini reply may carry
Replies ==
    { [ action |-> a, amount |-> 0, numeric |-> TRUE ] : a \in ActionNames \ { "raise" } }
    \cup { [ action |-> "raise", amount |-> m, numeric |-> TRUE ] : m \in Amounts }
    \cup { [ action |-> "raise", amount |-> 0, numeric |-> FALSE ] }

\* get_gemini_poker_action up to the lock: the service answers, or the call
\* or the parsing of its answer raises
GetGeminiPokerAction(t) ==
    /\ pc[t] = "get_gemini_poker_action"
    /\ \/ Goto(t, "gemini_commit")
       \/ Goto(t, "gemini_except")
    /\ UNCHANGED << table, action_lock, loc, hands, turn >>

\* the locked block in the try of get_gemini_poker_action.  The reply does
\* not depend on the table and is not looked at before: it is drawn here.
GeminiCommitWith(t, r) ==
    /\ action_lock = 0
    /\ IF NoSuchSeat \/ ActionRaises(r.action, r.numeric)
       THEN /\ Goto(t, "gemini_except")
            /\ UNCHANGED << players, current_bet, current_player_index, loc >>
       ELSE /\ Apply(r.action, r.amount)
            /\ Goto(t, "process_turn")
            /\ loc' = [ loc EXCEPT ![t] = NoLocals ]
    /\ UNCHANGED << deck, community_cards, pot, game_stage, game_in_progress,
                    small_blind_index, big_blind_index, action_lock,
                    human_action_needed, hands, turn >>

GeminiCommit(t) ==
    /\ pc[t] = "gemini_commit"
    /\ \E r \in Replies : GeminiCommitWith(t, r)

\* the locked block in the except of get_gemini_poker_action
GeminiExcept(t) ==
    /\ pc[t] = "gemini_except"
    /\ action_lock = 0
    /\ IF NoSuchSeat
       THEN /\ Finish(t)
            /\ UNCHANGED << players, current_bet, current_player_index >>
       ELSE /\ Apply("fold", 0)
            /\ Goto(t, "process_turn")
            /\ loc' = [ loc EXCEPT ![t] = NoLocals ]
    /\ UNCHANGED << deck, community_cards, pot, game_stage, game_in_progress,
                    small_blind_index, big_blind_index, action_lock,
                    human_action_needed, hands, turn >>

\* ---- routes ------------------------------------------------------------
\* POST /player_action: 400 unless an action is awaited
PlayerActionRoute(t) ==
    /\ FirstIdle(t)
    /\ IF ~human_action_needed
       THEN UNCHANGED pc
       ELSE Goto(t, "handle_human_action")
    /\ UNCHANGED << table, action_lock, loc, hands, turn >>

\* handle_human_action: the test before the lock
HandleHumanAction(t) ==
    /\ pc[t] = "handle_human_action"
    /\ IF ~human_action_needed
       THEN Finish(t)
       ELSE Goto(t, "handle_human_action_locked") /\ UNCHANGED loc
    /\ UNCHANGED << table, action_lock, hands, turn >>

\* faulty variant: the test inside the lock left out
StillNeeded_Skipped == TRUE

\* the test repeated inside the lock ("Double check inside lock")
StillNeeded == human_action_needed

\* faulty variant: the flag left set when the submission is taken
NeededAfter_Kept == TRUE

\* the value human_action_needed is given once the submission is taken
NeededAfter == FALSE

\* handle_human_action: the locked block and the start of the new turn loop.
\* The request ends there, so the started loop runs as thread t.  What the
\* request carries does not depend on the table and is not looked at
\* before: it is drawn here.
HandleHumanActionLocked(t) ==
    /\ pc[t] = "handle_human_action_locked"
    /\ action_lock = 0
    /\ IF ~StillNeeded
       THEN /\ Finish(t)
            /\ turn' = [ turn EXCEPT !.refused = TRUE ]
            /\ UNCHANGED << players, current_bet, current_player_index,
                            human_action_needed >>
       ELSE /\ human_action_needed' = NeededAfter
            /\ \E r \in Replies :
                 IF NoSuchSeat \/ ActionRaises(r.action, r.numeric)
                 THEN /\ Finish(t)
                      /\ UNCHANGED << players, current_bet, current_player_index, turn >>
                 ELSE /\ Apply(r.action, r.amount)
                      /\ Goto(t, "process_turn")
                      /\ loc' = [ loc EXCEPT ![t] = NoLocals ]
                      /\ turn' = [ turn EXCEPT !.answered = turn.answered + 1 ]
    /\ UNCHANGED << deck, community_cards, pot, game_stage, game_in_progress,
                    small_blind_index, big_blind_index, action_lock, hands >>

\* the threads about to run start_round()
Starting == { u \in Threads : pc[u] \in { "start_game", "start_round" } }

\* POST /next_round: 400 while a hand is in progress, else start_round()
NextRoundRoute(t) ==
    /\ FirstIdle(t)
    /\ hands + Cardinality(Starting) < MaxHands
    /\ IF game_in_progress
       THEN UNCHANGED pc
       ELSE Goto(t, "start_round")
    /\ UNCHANGED << table, action_lock, loc, hands, turn >>

\* ---- specification -----------------------------------------------------
Next ==
    \E t \in Threads :
        \/ StartGame(t)
        \/ StartRound(t)
        \/ ProcessBettingRound(t)
        \/ ProcessTurn(t)
        \/ ProcessTurnLocked(t)
        \/ GetCpuAction(t)
        \/ CpuCommit(t)
        \/ GetGeminiPokerAction(t)
        \/ GeminiCommit(t)
        \/ GeminiExcept(t)
        \/ PlayerActionRoute(t)
        \/ HandleHumanAction(t)
        \/ HandleHumanActionLocked(t)
        \/ NextRoundRoute(t)

Spec == Init /\ [][Next]_vars

\* ---- fair scheduling ---------------------------------------------------
\* the steps of a thread that is running (not the arrival of a request)
ThreadStep(t) ==
    \/ StartGame(t)
    \/ StartRound(t)
    \/ ProcessBettingRound(t)
    \/ ProcessTurn(t)
    \/ ProcessTurnLocked(t)
    \/ GetCpuAction(t)
    \/ CpuCommit(t)
    \/ GetGeminiPokerAction(t)
    \/ GeminiCommit(t)
    \/ GeminiExcept(t)
    \/ HandleHumanAction(t)
    \/ HandleHumanActionLocked(t)

\* the human submits when an action is awaited
HumanSubmits == \E t \in Threads : PlayerActionRoute(t) /\ human_action_needed

FoldOrCall ==
    \E a \in { "fold", "call" } :
        players' = HandleAction(players, current_player_index, current_bet, a, 0).players

\* the human seat, resp. a Gemini seat, answers with fold or call
HumanAnswers == \E t \in Threads : HandleHumanActionLocked(t) /\ FoldOrCall
GeminiAnswers == \E t \in Threads : GeminiCommit(t) /\ FoldOrCall

\* one hand: the game thread, the turn loops and the human submissions,
\* without next-hand commands
HandNext == \E t \in Threads : ThreadStep(t) \/ PlayerActionRoute(t)

HandInit == NewGame(HandSeatConfigs)

HandSpec == HandInit /\ [][HandNext]_vars

\* every running thread is scheduled, and every seat asked to act
\* eventually answers with fold or call
FairSpec ==
    /\ HandInit
    /\ [][HandNext]_vars
    /\ \A t \in Threads : WF_vars(ThreadStep(t))
    /\ SF_vars(HumanSubmits)
    /\ SF_vars(HumanAnswers)
    /\ SF_vars(GeminiAnswers)

\* ---- handle_action on its own ------------------------------------------
\* stacks, bets, table bets and requested amounts handle_action is tried on
UnitChips == { 30, 50, 1000 }
UnitBets == { 0, 10, 20 }
UnitCurrentBets == { 0, 20, 40 }
UnitAmounts == { 0, 30, 100, 1000 }

\* the seat about to act: neither folded nor all-in, with chips left
UnitActor(chips, bet, is_gemini) ==
    [ Player(IF is_gemini THEN "Gemini 1" ELSE "Human", FALSE, is_gemini)
        EXCEPT !.hand = 2, !.chips = chips, !.bet = bet ]

\* the other seat
UnitOther(bet, has_acted, is_folded, is_all_in) ==
    [ Player("CPU 1", TRUE, FALSE) EXCEPT
        !.hand = 2, !.bet = bet, !.has_acted = has_acted,
        !.is_folded = is_folded, !.is_all_in = is_all_in,
        !.chips = IF is_all_in THEN 0 ELSE StartChips - bet ]

UnitRequests ==
    { [ action |-> a, amount |-> 0, player |-> "none" ] : a \in ActionNames \ { "raise" } }
    \cup { [ action |-> "raise", amount |-> m, player |-> "none" ] : m \in UnitAmounts }

\* a table in the middle of a betting round; the seat to act is the human
\* seat or a Gemini seat
UnitTable(is_gemini) ==
    /\ \E chips \in UnitChips, bet \in UnitBets, cb \in UnitCurrentBets,
          acted, folded, allin \in BOOLEAN, obet \in UnitBets \cup UnitCurrentBets,
          cpi \in 0..1 :
          /\ bet <= cb /\ obet <= cb
          /\ ~(folded /\ allin)
          /\ (folded \/ allin) => acted
          /\ current_bet = cb
          /\ current_player_index = cpi
          /\ players = IF cpi = 0
                       THEN << UnitActor(chips, bet, is_gemini),
                               UnitOther(obet, acted, folded, allin) >>
                       ELSE << UnitOther(obet, acted, folded, allin),
                               UnitActor(chips, bet, is_gemini) >>
          /\ game_stage = IF cb = 0 THEN "flop" ELSE "pre-flop"
          /\ community_cards = IF cb = 0 THEN 3 ELSE 0
          /\ deck = IF cb = 0 THEN DeckSize - 7 ELSE DeckSize - 4
          /\ pot = IF cb = 0 THEN 2 * big_blind_amount ELSE 0
    /\ game_in_progress = TRUE
    /\ small_blind_index = 0
    /\ big_blind_index = 1
    /\ human_action_needed = FALSE
    /\ hands = 1
    /\ turn = NewTurn

\* the lock is held by thread 1, which is about to call
\* handle_action(action, amount)
ActionInit ==
    /\ UnitTable(FALSE)
    /\ action_lock = 1
    /\ pc = [ t \in Threads |-> IF t = 1 THEN "handle_action" ELSE "idle" ]
    /\ \E r \in UnitRequests :
          loc = [ t \in Threads |-> IF t = 1 THEN r ELSE NoLocals ]

\* the call of handle_action, inside the caller's locked block
HandleActionCall(t) ==
    /\ pc[t] = "handle_action"
    /\ action_lock = t
    /\ Apply(loc[t].action, loc[t].amount)
    /\ Goto(t, "returned")
    /\ UNCHANGED << deck, community_cards, pot, game_stage, game_in_progress,
                    small_blind_index, big_blind_index, action_lock,
                    human_action_needed, loc, hands, turn >>

ActionNext == \E t \in Threads : HandleActionCall(t)

ActionSpec == ActionInit /\ [][ActionNext]_vars

\* ---- properties --------------------------------------------------------
Total == SumChips(players) + pot + SumBets(players)

\* a step that applies handle_action to the seat current_player_index names
Acted(t) ==
    /\ \/ CpuCommit(t)
       \/ GeminiCommit(t)
       \/ GeminiExcept(t)
       \/ HandleHumanActionLocked(t)
    /\ pc'[t] = "process_turn"

\* a step that settles the hand: end_round() called by the turn loop
Payout(t) ==
    /\ ProcessTurnLocked(t)
    /\ \/ Cardinality(ActiveSeats(players)) <= 1
       \/ RoundClosed(players) /\ game_stage = "river"

\* a step that closes a betting round
RoundClose(t) ==
    /\ ProcessTurnLocked(t)
    /\ Cardinality(ActiveSeats(players)) > 1
    /\ RoundClosed(players)

\* C2: from the start of a hand, before the blinds are posted, until the
\* payout, chips + pot + bets is unchanged: the hand start leaves the sum at
\* the chips the seats had, and every later step but the payout keeps it.
C2_Conservation ==
    [][ /\ \A t \in Threads :
             StartRound(t) /\ game_in_progress' => Total' = SumChips(players)
        /\ (\E t \in Threads : Acted(t) \/ (RoundClose(t) /\ ~Payout(t)))
             => Total' = Total ]_vars

\* a hand has been started and is not settled
HandLive == game_in_progress /\ hands > 0

\* C5: the table is never reset (start_round) while a hand that was started
\* is still in progress.
C5_NoResetInHand ==
    [][ \A t \in Threads : StartRound(t) => ~HandLive ]_vars

\* C6: handle_action is only ever applied to a seat that is neither folded
\* nor all-in, and only such a seat is chosen to act.
C6_TurnSkipping ==
    [][ \A t \in Threads :
          /\ Acted(t) => /\ ~players[current_player_index + 1].is_folded
                         /\ ~players[current_player_index + 1].is_all_in
          /\ (ProcessTurnLocked(t)
               /\ (pc'[t] \in { "get_cpu_action", "get_gemini_poker_action" }
                   \/ (human_action_needed' /\ turn' = NewTurn /\ pc'[t] = "idle"
                       /\ UNCHANGED players)))
             => /\ ~players[current_player_index + 1].is_folded
                /\ ~players[current_player_index + 1].is_all_in ]_vars

\* a step of a human submission
Submission(t) ==
    PlayerActionRoute(t) \/ HandleHumanAction(t) \/ HandleHumanActionLocked(t)

\* C3: a human submission that finds human_action_needed false is refused
\* (the request ends, no turn loop is started) and leaves the table as it was.
C3_RefusedWhenNotNeeded ==
    [][ \A t \in Threads :
          Submission(t) /\ ~human_action_needed
            => UNCHANGED table /\ pc'[t] = "idle" ]_vars

\* a submission reached the locked block and was refused there
C3_Witness == turn.refused /\ ~human_action_needed

\* C4: for each time the turn loop sets human_action_needed, at most one
\* submission is applied and at most one turn loop is started.
C4_OneSubmissionPerTurn == turn.answered <= 1

\* two submissions raced: one was applied and the other refused
C4_Witness == turn.answered = 1 /\ turn.refused

LiveSeat(p) == ~p.is_folded /\ ~p.is_all_in

\* a step that applies a raise
Raised(t) ==
    /\ Acted(t)
    /\ \E m \in Amounts :
         players' = HandleAction(players, current_player_index, current_bet,
                                 "raise", m).players

\* C9: a raise leaves has_acted false for every other seat that is neither
\* folded nor all-in; a betting round closes only when every such seat has
\* has_acted true; and has_acted of a seat only becomes true by an action
\* applied to that seat.
C9_ReopenOnRaise ==
    [][ \A t \in Threads :
          /\ Raised(t) =>
               \A i \in Seats(players) :
                  i # current_player_index /\ LiveSeat(players'[i + 1])
                    => ~players'[i + 1].has_acted
          /\ RoundClose(t) =>
               \A i \in Seats(players) :
                  LiveSeat(players[i + 1]) => players[i + 1].has_acted
          /\ \A i \in Seats(players) \cap Seats(players') :
               ~players[i + 1].has_acted /\ players'[i + 1].has_acted
                 => \E u \in Threads : Acted(u) /\ i = current_player_index ]_vars

\* two seats that had called the big blind have to act again after the
\* big blind's all-in raise
C9_Witness ==
    /\ game_in_progress
    /\ Len(players) = 3
    /\ big_blind_index \in Seats(players)
    /\ LET r == big_blind_index IN
       /\ players[r + 1].is_all_in /\ players[r + 1].has_acted
       /\ players[r + 1].bet = current_bet /\ current_bet > big_blind_amount
       /\ \A j \in Seats(players) \ { r } :
            /\ LiveSeat(players[j + 1]) /\ ~players[j + 1].has_acted
            /\ players[j + 1].bet = big_blind_amount

\* C10: when the turn loop finds exactly one seat not folded, whatever the
\* stage, it ends the hand: no card is dealt, the stage stays, that seat gets
\* the pot and all outstanding bets, game_in_progress is false and every
\* hand is shown.
C10_WinByFold ==
    [][ \A t \in Threads :
          ProcessTurnLocked(t) /\ Cardinality(ActiveSeats(players)) = 1
            => /\ game_stage' = game_stage
               /\ community_cards' = community_cards
               /\ deck' = deck
               /\ ~game_in_progress'
               /\ Len(players') = Len(players)
               /\ \A i \in Seats(players) :
                    /\ players'[i + 1].show_hand
                    /\ players'[i + 1].chips =
                         IF i \in ActiveSeats(players)
                         THEN players[i + 1].chips + pot + SumBets(players)
                         ELSE players[i + 1].chips ]_vars

\* a hand won by fold before the flop
C10_Witness ==
    /\ ~game_in_progress
    /\ hands > 0
    /\ game_stage = "pre-flop"
    /\ community_cards = 0
    /\ Cardinality(ActiveSeats(players)) = 1
    /\ \A i \in Seats(players) :
         /\ players[i + 1].show_hand
         /\ players[i + 1].bet = 0
         /\ i \in ActiveSeats(players) => players[i + 1].chips >= StartChips + small_blind_amount

\* a thread has closed a betting round and dealt the next stage's cards: it
\* is in process_betting_round, about to re-open the betting
Reopening ==
    /\ game_in_progress
    /\ game_stage \in { "flop", "turn", "river" }
    /\ \E t \in Threads : pc[t] = "process_betting_round"

\* C1: under fair scheduling, with every seat answering, a betting round
\* that closes before the river is followed by the next betting round being
\* opened (or the hand being settled): the hand does not stay between rounds.
C1_RoundReopens == Reopening ~> ~Reopening

\* C7: applying 'all-in' to the current actor leaves it with bet = its
\* previous chips + bet, chips = 0 and is_all_in true.
C7_AllIn ==
    [][ \A t \in Threads :
          HandleActionCall(t) /\ loc[t].action = "all-in"
            => LET p == players[current_player_index + 1]
                   q == players'[current_player_index + 1]
               IN q.bet = p.chips + p.bet /\ q.chips = 0 /\ q.is_all_in ]_vars

\* C8: a raise to r is applied with min(max(minRaise, r), chips + bet), where
\* minRaise is twice current_bet, or the big blind when current_bet is 0; it
\* is never refused; and when that amount is chips + bet the seat ends with
\* no chips and all-in.
C8_RaiseClamp ==
    [][ \A t \in Threads :
          HandleActionCall(t) /\ loc[t].action = "raise"
            => LET p == players[current_player_index + 1]
                   q == players'[current_player_index + 1]
                   r == loc[t].amount
                   floor == IF current_bet > 0 THEN 2 * current_bet ELSE big_blind_amount
                   wanted == IF r > floor THEN r ELSE floor
                   stack == p.chips + p.bet
                   applied == IF wanted < stack THEN wanted ELSE stack
               IN /\ q.bet = applied
                  /\ q.chips = stack - applied
                  /\ current_bet' = applied
                  /\ q.has_acted
                  /\ applied = stack => q.chips = 0 /\ q.is_all_in ]_vars

\* chips = 50, bet = 0, current_bet = 20, raise to 1000: bet 50, all-in
C8_Witness ==
    /\ pc[1] = "returned"
    /\ loc[1].action = "raise" /\ loc[1].amount = 1000
    /\ current_bet = 50
    /\ \E k \in 1..Len(players) :
         /\ players[k].name = "Human"
         /\ players[k].bet = 50 /\ players[k].chips = 0 /\ players[k].is_all_in

\* ---- get_gemini_poker_action on its own --------------------------------
\* what the service gives back: the call raises ("failure"), the text holds
\* no JSON object ("unparseable"), or it holds one ("json") whose "action"
\* may be missing and whose "amount" may be no number
GeminiResponses ==
    { [ kind |-> k, action |-> "missing", amount |-> 0, numeric |-> TRUE ] :
        k \in { "failure", "unparseable" } }
    \cup { [ kind |-> "json", action |-> a, amount |-> 0, numeric |-> TRUE ] :
             a \in (ActionNames \cup { "missing" }) \ { "raise" } }
    \cup { [ kind |-> "json", action |-> "raise", amount |-> m, numeric |-> n ] :
             m \in { 0, 100 }, n \in BOOLEAN }

\* action_data.get("action", "fold")
ParsedAction(r) == IF r.action = "missing" THEN "fold" ELSE r.action

\* a Gemini seat is to act and its thread is about to ask the service
GeminiInit ==
    /\ UnitTable(TRUE)
    /\ action_lock = 0
    /\ pc = [ t \in Threads |-> IF t = 1 THEN "get_gemini_poker_action" ELSE "idle" ]
    /\ \E r \in GeminiResponses :
          loc = [ t \in Threads |->
                    IF t = 1 THEN [ action |-> "none", amount |-> 0,
                                    player |-> "Gemini 1", reply |-> r ]
                    ELSE NoLocals ]

\* the try block up to the lock: generate_content and json.loads
GeminiParse(t) ==
    /\ pc[t] = "get_gemini_poker_action"
    /\ IF loc[t].reply.kind # "json"
       THEN Goto(t, "gemini_except")
       ELSE Goto(t, "gemini_parsed")
    /\ UNCHANGED << table, action_lock, loc, hands, turn >>

\* the locked block of the try, for the reply that was parsed
GeminiApply(t) ==
    /\ pc[t] = "gemini_parsed"
    /\ GeminiCommitWith(t, [ action |-> ParsedAction(loc[t].reply),
                             amount |-> loc[t].reply.amount,
                             numeric |-> loc[t].reply.numeric ])

GeminiNext == \E t \in Threads : GeminiParse(t) \/ GeminiApply(t) \/ GeminiExcept(t)

GeminiSpec == GeminiInit /\ [][GeminiNext]_vars

\* a reply that is a JSON object with a known action and, for a raise, a
\* numeric amount
WellFormed(r) ==
    /\ r.kind = "json"
    /\ r.action \in { "fold", "check", "call", "raise", "all-in" }
    /\ r.action = "raise" => r.numeric

\* C11: a Gemini reply that is not well formed ends with the seat folded,
\* no other seat, the pot or current_bet changed, the lock free and the turn
\* loop going on with the next seat; until then the table is untouched.
C11_MalformedFolds ==
    [][ \A t \in Threads :
          /\ GeminiParse(t) => UNCHANGED table
          /\ (GeminiApply(t) \/ GeminiExcept(t)) /\ ~WellFormed(loc[t].reply)
               => \/ pc'[t] = "gemini_except" /\ UNCHANGED table
                  \/ /\ pc'[t] = "process_turn"
                     /\ players'[current_player_index + 1] =
                          [ players[current_player_index + 1] EXCEPT
                              !.is_folded = TRUE, !.has_acted = TRUE ]
                     /\ \A i \in Seats(players) \ { current_player_index } :
                          players'[i + 1] = players[i + 1]
                     /\ current_player_index' =
                          (current_player_index + 1) % Len(players)
                     /\ UNCHANGED << pot, current_bet, game_stage, game_in_progress >>
                     /\ action_lock' = 0 ]_vars

\* ---- hand ranking ------------------------------------------------------
\* A card is [value, suit], value 2..14 (RANK_VALUES) and suit 1..4 (SUITS).
\* A rank is [cat, vals]: the category and the values of the five cards in
\* the order get_hand_rank returns them; every reader of a rank takes the
\* values of its cards only.
Card(v, st) == [ value |-> v, suit |-> st ]

Values(h) == [ i \in 1..Len(h) |-> h[i].value ]

RECURSIVE RemoveOne(_, _)
RemoveOne(s, v) == IF s = << >> THEN << >>
                   ELSE IF Head(s) = v THEN Tail(s)
                   ELSE << Head(s) >> \o RemoveOne(Tail(s), v)

MaxOf(s) == CHOOSE m \in { s[i] : i \in 1..Len(s) } :
                \A i \in 1..Len(s) : m >= s[i]

\* sorted(..., reverse=True) on numbers
RECURSIVE SortDesc(_)
SortDesc(s) == IF s = << >> THEN << >>
               ELSE << MaxOf(s) >> \o SortDesc(RemoveOne(s, MaxOf(s)))

\* sorted(hand, key=lambda c: (c.value != a and c.value != b, c.value),
\* reverse=True): the pair (flag, value) is the number 100 * flag + value
SortByKey(vals, defining) ==
    LET keys == [ i \in 1..Len(vals) |->
                    (IF vals[i] \notin defining THEN 100 ELSE 0) + vals[i] ]
        sorted == SortDesc(keys)
    IN [ i \in 1..Len(vals) |-> sorted[i] % 100 ]

\* counts: the (value, count) items sorted by (count, value), greatest first;
\* the pair (count, value) is the number 100 * count + value
Counts(vals) ==
    LET distinct == { vals[i] : i \in 1..Len(vals) }
        n(v) == Cardinality({ i \in 1..Len(vals) : vals[i] = v })
        keys == SortDesc(SetToSeqOf({ 100 * n(v) + v : v \in distinct }))
    IN [ i \in 1..Len(keys) |-> << keys[i] % 100, keys[i] \div 100 >> ]

\* get_hand_rank(hand) for five cards
GetHandRank(hand) ==
    LET values == SortDesc(Values(hand))
        is_flush == Cardinality({ hand[i].suit : i \in 1..Len(hand) }) = 1
        wheel == values = << 14, 5, 4, 3, 2 >>
        is_straight ==
            \/ /\ Cardinality({ values[i] : i \in 1..5 }) = 5
               /\ values[1] - values[5] = 4
            \/ wheel
        counts == Counts(values)
    IN IF is_straight /\ is_flush
       THEN [ cat |-> IF values = << 14, 13, 12, 11, 10 >> THEN 9 ELSE 8,
              vals |-> values ]
       ELSE IF counts[1][2] = 4
       THEN [ cat |-> 7, vals |-> SortByKey(values, { counts[1][1] }) ]
       ELSE IF counts[1][2] = 3 /\ counts[2][2] = 2
       THEN [ cat |-> 6, vals |-> values ]
       ELSE IF is_flush
       THEN [ cat |-> 5, vals |-> values ]
       ELSE IF is_straight
       THEN [ cat |-> 4,
              vals |-> IF wheel THEN << 5, 4, 3, 2, 14 >> ELSE values ]
       ELSE IF counts[1][2] = 3
       THEN [ cat |-> 3, vals |-> SortByKey(values, { counts[1][1] }) ]
       ELSE IF counts[1][2] = 2 /\ counts[2][2] = 2
       THEN [ cat |-> 2,
              vals |-> SortByKey(values, { counts[1][1], counts[2][1] }) ]
       ELSE IF counts[1][2] = 2
       THEN [ cat |-> 1, vals |-> SortByKey(values, { counts[1][1] }) ]
       ELSE [ cat |-> 0, vals |-> values ]

\* a > b on two lists of numbers of the same length
ListGreater(a, b) ==
    \E i \in 1..Len(a) :
        /\ a[i] > b[i]
        /\ \A j \in 1..(i - 1) : a[j] = b[j]

\* itertools.combinations(hand, 5) for seven cards, in its order: the k-th
\* subset leaves out the k-th of the pairs (6,7), (5,7), (5,6), (4,7), ...
RECURSIVE LeftOut(_, _)
LeftOut(i, j) ==
    IF i = 0 THEN << >>
    ELSE IF j = i THEN LeftOut(i - 1, 7)
    ELSE << << i, j >> >> \o LeftOut(i, j - 1)

Without(hand, pair) ==
    SelectSeqIdx(hand, { i \in 1..Len(hand) : i # pair[1] /\ i # pair[2] })

\* the loop of evaluate_hand over the subsets not yet seen, best so far
\* [cat, vals, sorted] with sorted the values in descending order
RECURSIVE BestOf(_, _, _)
BestOf(hand, pairs, best) ==
    IF pairs = << >> THEN best
    ELSE LET rank == GetHandRank(Without(hand, Head(pairs)))
             better ==
                 \/ rank.cat > best.cat
                 \/ /\ rank.cat = best.cat
                    /\ ListGreater(SortDesc(rank.vals), SortDesc(best.vals))
         IN BestOf(hand, Tail(pairs), IF better THEN rank ELSE best)

\* evaluate_hand(hand) for seven cards
EvaluateHand(hand) ==
    BestOf(hand, LeftOut(6, 7), [ cat |-> -1, vals |-> << >> ])

\* ---- end_round at the showdown, on its own -----------------------------
\* a > b on two (category, values) keys, as Python compares the tuples
RankGreater(a, b) ==
    \/ a.cat > b.cat
    \/ a.cat = b.cat /\ ListGreater(a.vals, b.vals)

\* winner_data[0] and the entries equal to it: the seats of active whose
\* key is the greatest (ranks maps each seat of active to its rank)
ShowdownWinners(active, ranks) ==
    LET best == CHOOSE i \in active :
                    \A j \in active : ~RankGreater(ranks[j], ranks[i])
    IN { i \in active : ranks[i].cat = ranks[best].cat
                        /\ ranks[i].vals = ranks[best].vals }

\* community cards and hole cards end_round is tried on
ShowBoards ==
    { << Card(2, 1), Card(12, 2), Card(11, 3), Card(9, 4), Card(4, 1) >>,
      << Card(2, 1), Card(3, 2), Card(4, 3), Card(5, 4), Card(6, 1) >>,
      << Card(2, 1), Card(2, 2), Card(3, 1), Card(3, 2), Card(14, 1) >>,
      << Card(7, 1), Card(7, 2), Card(7, 3), Card(13, 4), Card(10, 1) >> }

ShowHoles ==
    { << Card(14, 2), Card(14, 3) >>,
      << Card(2, 3), Card(13, 1) >>,
      << Card(13, 2), Card(8, 2) >>,
      << Card(13, 3), Card(8, 3) >>,
      << Card(14, 4), Card(9, 1) >>,
      << Card(3, 3), Card(12, 4) >>,
      << Card(2, 4), Card(14, 3) >>,
      << Card(7, 4), Card(5, 1) >> }

ShowPots == { 101 }

\* who has folded, by seat
ShowFolds ==
    { << FALSE, FALSE, FALSE >>, << TRUE, FALSE, FALSE >>,
      << FALSE, FALSE, TRUE >>, << FALSE, TRUE, TRUE >> }

\* all cards of a deal are different cards
NoCardTwice(board, holes) ==
    LET dealt == board \o holes[1] \o holes[2]
                 \o (IF Len(holes) = 3 THEN holes[3] ELSE << >>)
    IN Cardinality({ dealt[i] : i \in 1..Len(dealt) }) = Len(dealt)

\* a seat at the showdown
ShowSeat(name, is_cpu, is_folded) ==
    [ Player(name, is_cpu, FALSE) EXCEPT
        !.hand = 2, !.has_acted = TRUE, !.is_folded = is_folded ]

\* the river round is closed and swept, the stage is the showdown and
\* thread 1, holding the lock, is about to run end_round().  The cards
\* behind the counts (each p.hand and community_cards) are carried in loc.
ShowdownInit ==
    /\ \E folded \in ShowFolds, n \in 2..3 :
          /\ \E k \in 1..n : ~folded[k]
          /\ players = [ k \in 1..n |->
                           ShowSeat(IF k = 1 THEN "Human" ELSE CpuName(k - 1),
                                    k > 1, folded[k]) ]
          /\ deck = DeckSize - 2 * n - 5
    /\ \E board \in ShowBoards, holes \in [ 1..Len(players) -> ShowHoles ] :
          /\ NoCardTwice(board, holes)
          /\ loc = [ t \in Threads |->
                       IF t = 1 THEN [ action |-> "none", amount |-> 0,
                                       player |-> "none", board |-> board,
                                       holes |-> holes, winner_data |-> << >> ]
                       ELSE NoLocals ]
    /\ pot \in ShowPots
    /\ community_cards = 5
    /\ current_bet = 0
    /\ current_player_index = 0
    /\ game_stage = "showdown"
    /\ game_in_progress = TRUE
    /\ small_blind_index = 0
    /\ big_blind_index = 1
    /\ action_lock = 1
    /\ human_action_needed = FALSE
    /\ pc = [ t \in Threads |-> IF t = 1 THEN "end_round" ELSE "idle" ]
    /\ hands = 1
    /\ turn = NewTurn

\* the call of end_round(), inside the caller's locked block; the ranks it
\* computed are kept in loc
EndRoundCall(t) ==
    /\ pc[t] = "end_round"
    /\ action_lock = t
    /\ \E ranks \in { [ i \in ActiveSeats(players) |->
                          EvaluateHand(loc[t].holes[i + 1] \o loc[t].board) ] } :
       \E r \in { EndRound(players, pot,
                           IF Cardinality(ActiveSeats(players)) = 1 THEN {}
                           ELSE ShowdownWinners(ActiveSeats(players), ranks)) } :
          /\ players' = r.players
          /\ pot' = r.pot
          /\ game_in_progress' = IF r.raised THEN game_in_progress ELSE FALSE
          /\ loc' = [ loc EXCEPT ![t].winner_data =
                        IF Cardinality(ActiveSeats(players)) = 1 THEN << >>
                        ELSE ranks ]
    /\ Goto(t, "returned")
    /\ UNCHANGED << deck, community_cards, current_bet, current_player_index,
                    game_stage, small_blind_index, big_blind_index,
                    action_lock, human_action_needed, hands, turn >>

ShowdownNext == \E t \in Threads : EndRoundCall(t)

ShowdownSpec == ShowdownInit /\ [][ShowdownNext]_vars

\* the seats of active no other seat of active is ranked above
TiedBest(active, ranks) ==
    { i \in active : \A j \in active : ~RankGreater(ranks[j], ranks[i]) }

\* C12: at the showdown, when k >= 2 seats not folded tie for the best rank
\* found for them, each gets pot \div k chips and every other seat gets none.
C12_SplitPot ==
    [][ \A t \in Threads :
          EndRoundCall(t) /\ Cardinality(ActiveSeats(players)) >= 2
            => LET tied == TiedBest(ActiveSeats(players), loc'[t].winner_data)
                   k == Cardinality(tied)
               IN k >= 2 =>
                    \A i \in Seats(players) :
                        players'[i + 1].chips =
                          players[i + 1].chips
                            + (IF i \in tied THEN (pot + SumBets(players)) \div k
                               ELSE 0) ]_vars

\* pot 101, two of three seats tie: 50 each, nothing for the third
C12_Witness ==
    /\ pc[1] = "returned"
    /\ pot = 101
    /\ Len(players) = 3
    /\ \A k \in 1..3 : ~players[k].is_folded
    /\ \E k \in 1..3 :
         /\ players[k].chips = StartChips
         /\ \A m \in (1..3) \ { k } : players[m].chips = StartChips + 50

\* the largest bet among the seats that have not folded (0 with none left)
MaxBet(ps) ==
    LET bets == { ps[i + 1].bet : i \in ActiveSeats(ps) }
    IN IF bets = {} THEN 0 ELSE CHOOSE m \in bets : \A b \in bets : b <= m

\* C13: in a hand in progress current_bet is the maximum bet among the
\* non-folded seats: a check, call or raise, applied to a table where that
\* is so, leaves it so (an all-in raise for less than the current bet
\* included).  A fold is left aside: the folding seat may be the one whose
\* bet was the maximum.
C13_CurrentBetIsMax ==
    [][ \A t \in Threads :
          (HandleActionCall(t) /\ game_in_progress
             /\ loc[t].action # "fold"
             /\ current_bet = MaxBet(players))
          => current_bet' = MaxBet(players') ]_vars

\* the steps thread t takes inside a "with self.action_lock" block
LockedStep(t) ==
    \/ StartRound(t)
    \/ ProcessBettingRound(t)
    \/ ProcessTurnLocked(t)
    \/ CpuCommit(t)
    \/ GeminiCommit(t)
    \/ GeminiExcept(t)
    \/ HandleHumanActionLocked(t)

\* C14: every read and write of the table by hand start, the turn loop, the
\* decision steps and human submission is done by a thread holding the
\* lock; for the writes: a step that changes the table is a step some
\* thread takes inside a locked block.
C14_WritesUnderLock ==
    [][ table' # table => \E t \in Threads : LockedStep(t) ]_vars

\* a provider (the scripted choice or the remote service) is computing the
\* decision of thread t's turn loop
AtProvider(t) == pc[t] \in { "get_cpu_action", "get_gemini_poker_action" }

\* C15: the turn loop never holds the lock while a provider is computing
\* its decision: the lock is released before the provider call and taken
\* again only to commit the action.
C15_ProviderUnlocked ==
    \A t \in Threads : AtProvider(t) => action_lock # t

\* a Gemini seat's decision is being computed, the lock is free and a
\* submission can come in on another thread
C15_Witness ==
    \E t \in Threads :
        /\ pc[t] = "get_gemini_poker_action"
        /\ action_lock = 0
        /\ \E u \in Threads : pc[u] = "idle"

\* the values of a five-card rank with the cards defining the category first:
\* by number of occurrences, then by value, greatest first
DefiningFirst(vals) ==
    LET n(v) == Cardinality({ i \in 1..Len(vals) : vals[i] = v })
        sorted == SortDesc([ i \in 1..Len(vals) |-> 100 * n(vals[i]) + vals[i] ])
    IN [ i \in 1..Len(vals) |-> sorted[i] % 100 ]

\* the categories made of cards of equal value: pair, two pair, trips,
\* full house, quads
Grouped(cat) == cat \in { 1, 2, 3, 6, 7 }

\* the tiebreak list of a rank, defining cards first
TieBreak(rank) ==
    [ cat |-> rank.cat,
      vals |-> IF Grouped(rank.cat) THEN DefiningFirst(rank.vals) ELSE rank.vals ]

\* C16: at the showdown every rank's tiebreak list has the cards defining
\* its category first, and the seats that are paid are exactly the
\* non-folded seats whose (category, tiebreak list) is maximal
\* (a pair of aces beats a pair of twos whatever the kickers).
C16_ShowdownOrder ==
    [][ \A t \in Threads :
          (EndRoundCall(t) /\ Cardinality(ActiveSeats(players)) >= 2)
          => LET active == ActiveSeats(players)
                 ranks == loc'[t].winner_data
                 best == { i \in active :
                             \A j \in active :
                                ~RankGreater(TieBreak(ranks[j]), TieBreak(ranks[i])) }
             IN /\ \A i \in active : ranks[i].vals = TieBreak(ranks[i]).vals
                /\ \A i \in active :
                      (players'[i + 1].chips > players[i + 1].chips) <=> (i \in best)
      ]_vars

\* a rank with the wheel A-2-3-4-5 as the 5-high straight: its Ace last
WheelLow(rank) ==
    IF rank.cat \in { 4, 8 } /\ SortDesc(rank.vals) = << 14, 5, 4, 3, 2 >>
    THEN [ cat |-> rank.cat, vals |-> << 5, 4, 3, 2, 14 >> ]
    ELSE rank

\* C17: evaluate_hand on seven cards returns the best of the 21 five-card
\* subsets: none of them has a higher category, or the same category and a
\* tiebreak list that is greater element-wise, the wheel counting as the
\* 5-high straight (from A,2,3,4,5,6 it returns the 6-high straight).
C17_BestOfSubsets ==
    [][ \A t \in Threads :
          (EndRoundCall(t) /\ Cardinality(ActiveSeats(players)) >= 2)
          => \A i \in ActiveSeats(players) :
                LET hand == loc[t].holes[i + 1] \o loc[t].board
                    pairs == LeftOut(6, 7)
                    got == WheelLow(loc'[t].winner_data[i])
                IN \A k \in 1..Len(pairs) :
                      ~RankGreater(WheelLow(GetHandRank(Without(hand, pairs[k]))), got)
      ]_vars

\* C18: every hand start advances the small-blind seat by exactly one
\* position modulo the seat count, the first hand of a session putting it on
\* seat 0; the big blind is the next seat, the first actor the seat after
\* the big blind, and the stage is pre-flop.
C18_BlindRotation ==
    [][ \A t \in Threads :
          (StartRound(t) /\ game_in_progress')
          => /\ small_blind_index' =
                   IF hands = 0 THEN 0
                   ELSE (small_blind_index + 1) % Len(players')
             /\ big_blind_index' = (small_blind_index' + 1) % Len(players')
             /\ current_player_index' = (big_blind_index' + 1) % Len(players')
             /\ game_stage' = "pre-flop"
      ]_vars

\* thread t is at a "with self.action_lock" statement
AcquiresLock(t) ==
    \/ pc[t] \in { "start_round", "process_turn_locked", "cpu_commit",
                   "gemini_commit", "gemini_except", "handle_human_action_locked" }
    \/ pc[t] = "process_betting_round" /\ game_stage # "pre-flop"

\* C19: no thread asks for the lock while it holds it; in particular the
\* turn loop closing a round and advancing the stage re-opens the betting
\* without blocking on the lock.
C19_NoSelfDeadlock ==
    \A t \in Threads : AcquiresLock(t) => action_lock # t

\* C20: no chips are created by playing a hand: when the first hand, which
\* every seat starts with StartChips, is settled, the chips of all seats sum
\* to no more than they did before the hand, and to exactly that when the
\* pot goes to a single winner.
C20_NoChipsCreated ==
    [][ \A t \in Threads :
          (Payout(t) /\ hands = 1)
          => /\ SumChips(players') <= Len(players) * StartChips
             /\ Cardinality(ActiveSeats(players)) = 1
                  => SumChips(players') = Len(players) * StartChips
      ]_vars

\* a seat's stack is sound: chips and bet are not negative, and a seat that
\* has not folded is marked all-in exactly when it has no chips left
SoundSeat(p) ==
    /\ p.chips >= 0
    /\ p.bet >= 0
    /\ ~p.is_folded => (p.is_all_in <=> p.chips = 0)

\* C21: while a hand is in progress every seat has chips >= 0 and bet >= 0,
\* and a non-folded seat is all-in if and only if its chips are 0: this is
\* so after every blind posting and after every fold, check, call or raise
\* applied in a hand in progress, whatever the amount asked for.
C21_SoundStacks ==
    [][ \A t \in Threads :
          ((StartRound(t) /\ game_in_progress') \/ (Acted(t) /\ game_in_progress))
          => \A k \in 1..Len(players') : SoundSeat(players'[k]) ]_vars

====
